---- MODULE Spec2Model ----
(***************************************************************************)
(* The per-hand Texas Hold'em engine (PokerGame, Player, Deck) as a state  *)
(* machine.  One action per public operation of PokerGame; the private     *)
(* helpers are operators over a record of the engine's fields.             *)
(***************************************************************************)
EXTENDS Integers, Sequences, FiniteSets, TLC

VARIABLES
  players,            \* PokerGame.players: seat 0..5 -> Player fields
  deck,               \* Deck.cards, the last element is the top
  communityCards,
  pot,
  currentBet,
  activePlayerIndex,
  dealerIndex,
  smallBlindIndex,
  bigBlindIndex,
  phase,
  actionLog,
  gameActions,
  handId,
  isFirstAction,
  initialStacks,
  lastCall,           \* history: the last public call, its action and outcome
  handStartStacks,    \* history: the six stacks when startNewHand was entered
  handsStarted,       \* history: number of startNewHand calls
  actionCount,        \* history: startNewHand and accepted processAction calls
  raiseCount,         \* history: number of accepted BET, RAISE and ALL_IN calls
  handHistory,        \* page: the HandResults of the Hand History list
  gameState,          \* page: the fields of the last getGameState() it reads
  validActions,       \* page: the last getValidActions()
  betAmount,          \* page: the amount of the Bet and Raise buttons
  playerStacks        \* page: the six stack inputs

engine == <<players, deck, communityCards, pot, currentBet, activePlayerIndex,
            dealerIndex, smallBlindIndex, bigBlindIndex, phase, actionLog,
            gameActions, handId, isFirstAction, initialStacks>>

vars == <<players, deck, communityCards, pot, currentBet, activePlayerIndex,
          dealerIndex, smallBlindIndex, bigBlindIndex, phase, actionLog,
          gameActions, handId, isFirstAction, initialStacks,
          lastCall, handStartStacks, handsStarted, actionCount, raiseCount,
          handHistory, gameState, validActions, betAmount, playerStacks>>

page == <<handHistory, gameState, validActions, betAmount, playerStacks>>

-----------------------------------------------------------------------------
(* Bounds of the exploration *)

MaxHands == 2         \* startNewHand calls explored
MaxActions == 7       \* startNewHand and accepted processAction calls explored
MaxRaises == 1        \* accepted BET, RAISE and ALL_IN calls explored
NumShuffles == 1      \* outcomes of Deck.shuffle explored

(* Program constants *)

SMALL_BLIND == 20
BIG_BLIND == 40
NumSeats == 6
DefaultStack == 1000

Seats == 0 .. (NumSeats - 1)

SETUP == "setup"
PREFLOP == "preflop"
FLOP == "flop"
TURN == "turn"
RIVER == "river"
SHOWDOWN == "showdown"
FINISHED == "finished"

GamePhase == {SETUP, PREFLOP, FLOP, TURN, RIVER, SHOWDOWN, FINISHED}

FOLD == "fold"
CHECK == "check"
CALL == "call"
BET == "bet"
RAISE == "raise"
ALL_IN == "all_in"

PlayerAction == {FOLD, CHECK, CALL, BET, RAISE, ALL_IN}

(* Inputs explored *)

\* Stack settings handed to setPlayerStacks (the last one has the wrong length)
StackSettings ==
  { <<1000, 1000, 1000, 1000, 1000, 1000>>,
    <<1000, 1000, 20, 40, 1000, 1000>>,
    <<1000, 40, 0, 0, 0, 0>>,
    <<70, 30, 1000, 0, 0, 1000>>,
    <<20, 40, 0, 0, 0, 0>>,
    <<0, 0, 0, 1000, 0, 0>>,
    <<0, 0, 0, 0, 0, 0>>,
    <<1000, 1000>> }

\* Amounts handed to processAction with BET and RAISE; 0 is "no amount"
Amounts == {0, 10, 50, 80}

\* An action string outside the PlayerAction enum
UnknownAction == "muck"

ActionInputs ==
  ({FOLD, CHECK, CALL, ALL_IN, UnknownAction} \X {0}) \cup ({BET, RAISE} \X Amounts)

-----------------------------------------------------------------------------
(* Generic helpers *)

Min(a, b) == IF a < b THEN a ELSE b

RECURSIVE SumOver(_, _)
SumOver(f, S) ==
  IF S = {} THEN 0
  ELSE LET x == CHOOSE y \in S : TRUE IN f[x] + SumOver(f, S \ {x})

RECURSIVE Join(_, _)
Join(strs, sep) ==
  IF Len(strs) = 0 THEN ""
  ELSE IF Len(strs) = 1 THEN strs[1]
  ELSE strs[1] \o sep \o Join(Tail(strs), sep)

-----------------------------------------------------------------------------
(* Card and Deck.  A card is its index in the order Deck.reset builds the   *)
(* cards: suit-major over h, d, c, s and rank-minor over 2 .. A.            *)

Suit == <<"h", "d", "c", "s">>
Rank == <<"2", "3", "4", "5", "6", "7", "8", "9", "T", "J", "Q", "K", "A">>

DeckSize == Len(Suit) * Len(Rank)

Cards == 0 .. (DeckSize - 1)

CardRankIndex(c) == (c % Len(Rank)) + 1
CardSuitIndex(c) == (c \div Len(Rank)) + 1

CardToString(c) == Rank[CardRankIndex(c)] \o Suit[CardSuitIndex(c)]

\* The cards in the order of the two nested loops of Deck.reset
OrderedDeck == [i \in 1 .. DeckSize |-> i - 1]

\* Outcome number k of the Fisher-Yates shuffle: every permutation is a
\* possible outcome, the exploration takes the rotations by 14 * k.
Shuffle(cards, k) ==
  [i \in 1 .. Len(cards) |-> cards[((i - 1 + 14 * k) % Len(cards)) + 1]]

DeckReset(k) == Shuffle(OrderedDeck, k)

\* Deck.deal pops the last card
DeckTop(d) == d[Len(d)]
DeckRest(d) == SubSeq(d, 1, Len(d) - 1)

-----------------------------------------------------------------------------
(* Player *)

PlayerName(i) == "Player " \o ToString(i + 1)

NewPlayer(stack) ==
  [ stack |-> stack, currentBet |-> 0, totalBetThisHand |-> 0,
    hasFolded |-> FALSE, isAllIn |-> FALSE, hasActed |-> FALSE,
    holeCards |-> << >> ]

PlayerReset(p) ==
  [ p EXCEPT !.holeCards = << >>, !.currentBet = 0, !.totalBetThisHand = 0,
             !.hasFolded = FALSE, !.isAllIn = FALSE, !.hasActed = FALSE ]

\* Player.bet: the chips actually committed
BetAmount(p, amount) == Min(amount, p.stack)

\* Player.bet without the line that adds to totalBetThisHand
PlayerBetNoTotal(p, amount) ==
  LET actualAmount == BetAmount(p, amount)
  IN [ p EXCEPT !.stack = p.stack - actualAmount,
                !.currentBet = p.currentBet + actualAmount,
                !.hasActed = TRUE,
                !.isAllIn = (p.isAllIn \/ p.stack - actualAmount = 0) ]

\* Player.bet without the test that marks the player all-in
PlayerBetNoAllInMark(p, amount) ==
  LET actualAmount == BetAmount(p, amount)
  IN [ p EXCEPT !.stack = p.stack - actualAmount,
                !.currentBet = p.currentBet + actualAmount,
                !.totalBetThisHand = p.totalBetThisHand + actualAmount,
                !.hasActed = TRUE ]

\* Player.bet: the player afterwards
PlayerBet(p, amount) ==
  LET actualAmount == BetAmount(p, amount)
  IN [ p EXCEPT !.stack = p.stack - actualAmount,
                !.currentBet = p.currentBet + actualAmount,
                !.totalBetThisHand = p.totalBetThisHand + actualAmount,
                !.hasActed = TRUE,
                !.isAllIn = (p.isAllIn \/ p.stack - actualAmount = 0) ]

PlayerFold(p) == [ p EXCEPT !.hasFolded = TRUE, !.hasActed = TRUE ]

PlayerCheck(p) == [ p EXCEPT !.hasActed = TRUE ]

PlayerCall(p, amountToCall) == PlayerBet(p, Min(amountToCall, p.stack))

PlayerAllIn(p) == PlayerBet(p, p.stack)

CanAct(p) == ~p.hasFolded /\ ~p.isAllIn /\ p.stack > 0

GetHoleCardsString(p) ==
  Join([k \in 1 .. Len(p.holeCards) |-> CardToString(p.holeCards[k])], "")

-----------------------------------------------------------------------------
(* PokerGame: private helpers.  g is a record of the engine's fields plus   *)
(* phases, the values assigned to phase so far in the running call, and     *)
(* threw, whether the call has thrown.                                       *)

NonFolded(ps) == {i \in Seats : ~ps[i].hasFolded}

\* The first element of players.filter(p => !p.hasFolded)
FirstNonFolded(ps) == CHOOSE i \in NonFolded(ps) : \A j \in NonFolded(ps) : i <= j

LogAction(g, action) == [g EXCEPT !.actionLog = Append(g.actionLog, action)]

SetPhase(g, ph) == [g EXCEPT !.phase = ph, !.phases = Append(g.phases, ph)]

\* The loop of findNextActivePlayer, entered with attempts tries made
RECURSIVE FindNextActiveLoop(_, _, _, _)
FindNextActiveLoop(ps, index, startIndex, attempts) ==
  IF attempts >= NumSeats THEN index
  ELSE IF CanAct(ps[index]) THEN index
  ELSE LET next == (index + 1) % NumSeats
       IN IF next = startIndex THEN next
          ELSE FindNextActiveLoop(ps, next, startIndex, attempts + 1)

\* findNextActivePlayer that keeps the seat it starts on
FindNextActivePlayerNoScan(g) == [g EXCEPT !.activePlayerIndex = g.activePlayerIndex]

FindNextActivePlayer(g) ==
  [g EXCEPT !.activePlayerIndex =
     FindNextActiveLoop(g.players, g.activePlayerIndex, g.activePlayerIndex, 0)]

\* setActivePlayer whose PREFLOP search starts on the big blind
SetActivePlayerFromBigBlind(g) ==
  FindNextActivePlayer(
    [g EXCEPT !.activePlayerIndex =
       IF g.phase = PREFLOP THEN g.bigBlindIndex
       ELSE (g.dealerIndex + 1) % NumSeats])

SetActivePlayer(g) ==
  FindNextActivePlayer(
    [g EXCEPT !.activePlayerIndex =
       IF g.phase = PREFLOP THEN (g.bigBlindIndex + 1) % NumSeats
       ELSE (g.dealerIndex + 1) % NumSeats])

MoveToNextPlayer(g) ==
  FindNextActivePlayer(
    [g EXCEPT !.activePlayerIndex = (g.activePlayerIndex + 1) % NumSeats])

\* The loop of findNextPlayerWithChips: <<next, attempts>> when it exits
RECURSIVE FindChipsLoop(_, _, _)
FindChipsLoop(ps, next, attempts) ==
  IF ps[next].stack = 0 /\ attempts < NumSeats
  THEN FindChipsLoop(ps, (next + 1) % NumSeats, attempts + 1)
  ELSE <<next, attempts>>

\* findNextPlayerWithChips throws when the loop gave up
FindNextPlayerWithChipsThrows(ps, fromIndex) ==
  FindChipsLoop(ps, (fromIndex + 1) % NumSeats, 0)[2] >= NumSeats

\* findNextPlayerWithChips that takes the next seat whatever its stack
FindNextPlayerNoSkip(ps, fromIndex) ==
  (fromIndex + 1) % NumSeats

FindNextPlayerWithChips(ps, fromIndex) ==
  FindChipsLoop(ps, (fromIndex + 1) % NumSeats, 0)[1]

IsBettingRoundComplete(g) ==
  LET activePlayers == NonFolded(g.players)
      playersWithChips ==
        {i \in activePlayers : g.players[i].stack > 0 /\ ~g.players[i].isAllIn}
      allActed == \A i \in activePlayers : g.players[i].hasActed
      allBetsMatched ==
        \A i \in activePlayers :
           \/ g.players[i].currentBet = g.currentBet
           \/ g.players[i].isAllIn
           \/ g.players[i].stack = 0
  IN \/ Cardinality(activePlayers) <= 1
     \/ Cardinality(playersWithChips) <= 1
     \/ (allActed /\ allBetsMatched)

\* deck.deal() whose card is discarded (the burn card)
Burn(g) == [g EXCEPT !.deck = DeckRest(g.deck)]

\* communityCards.push(deck.deal())
DealCommunity(g) ==
  [g EXCEPT !.communityCards = Append(g.communityCards, DeckTop(g.deck)),
            !.deck = DeckRest(g.deck)]

CardStrings(cards) == [k \in 1 .. Len(cards) |-> CardToString(cards[k])]

\* dealFlop that joins the flop's token with spaces, as it does the log line
DealFlopSpacedToken(g) ==
  LET d == DealCommunity(DealCommunity(DealCommunity(Burn(g))))
      flop == CardStrings(SubSeq(d.communityCards, 1, 3))
      l == LogAction(d, "*** FLOP *** [" \o Join(flop, " ") \o "]")
  IN [l EXCEPT !.gameActions =
        Append(l.gameActions,
               [playerId |-> -1, action |-> Join(flop, " "), phase |-> "flop"])]

DealFlop(g) ==
  LET d == DealCommunity(DealCommunity(DealCommunity(Burn(g))))
      flop == CardStrings(SubSeq(d.communityCards, 1, 3))
      l == LogAction(d, "*** FLOP *** [" \o Join(flop, " ") \o "]")
  IN [l EXCEPT !.gameActions =
        Append(l.gameActions,
               [playerId |-> -1, action |-> Join(flop, ""), phase |-> "flop"])]

\* dealTurn that pushes two community cards
DealTurnTwoCards(g) ==
  LET d == DealCommunity(DealCommunity(Burn(g)))
      turnCard == CardToString(d.communityCards[4])
      l == LogAction(d, "*** TURN *** [" \o turnCard \o "]")
  IN [l EXCEPT !.gameActions =
        Append(l.gameActions,
               [playerId |-> -1, action |-> turnCard, phase |-> "turn"])]

DealTurn(g) ==
  LET d == DealCommunity(Burn(g))
      turnCard == CardToString(d.communityCards[4])
      l == LogAction(d, "*** TURN *** [" \o turnCard \o "]")
  IN [l EXCEPT !.gameActions =
        Append(l.gameActions,
               [playerId |-> -1, action |-> turnCard, phase |-> "turn"])]

DealRiver(g) ==
  LET d == DealCommunity(Burn(g))
      riverCard == CardToString(d.communityCards[5])
      l == LogAction(d, "*** RIVER *** [" \o riverCard \o "]")
  IN [l EXCEPT !.gameActions =
        Append(l.gameActions,
               [playerId |-> -1, action |-> riverCard, phase |-> "river"])]

\* processHandCompletion; with no seat left, winner is undefined and the
\* access to winner.stack throws
ProcessHandCompletion(g) ==
  LET activePlayers == NonFolded(g.players)
  IN IF activePlayers = {}
     THEN [g EXCEPT !.threw = TRUE]
     ELSE
       LET winner == FirstNonFolded(g.players)
           paid == [g EXCEPT !.players[winner].stack = @ + g.pot]
           said ==
             LogAction(paid,
               PlayerName(winner) \o " wins " \o ToString(g.pot) \o
               (IF Cardinality(activePlayers) = 1
                THEN " (no showdown needed)" ELSE " with best hand"))
       IN LogAction(SetPhase(said, FINISHED), "*** HAND COMPLETE ***")

ProcessShowdown(g) == ProcessHandCompletion(LogAction(g, "*** SHOWDOWN ***"))

\* advanceToNextPhase whose PREFLOP case sets the phase to TURN
AdvanceToNextPhaseSkipsFlop(g) ==
  LET r == [g EXCEPT
              !.players = [i \in Seats |->
                  [g.players[i] EXCEPT !.hasActed = FALSE, !.currentBet = 0]],
              !.currentBet = 0]
      announce(x) ==
        LET a == SetActivePlayer(x)
        IN LogAction(a, "Action to " \o PlayerName(a.activePlayerIndex))
  IN IF Cardinality(NonFolded(r.players)) <= 1
     THEN ProcessHandCompletion(SetPhase(r, FINISHED))
     ELSE CASE r.phase = PREFLOP -> announce(SetPhase(DealFlop(r), TURN))
            [] r.phase = FLOP -> announce(SetPhase(DealTurn(r), TURN))
            [] r.phase = TURN -> announce(SetPhase(DealRiver(r), RIVER))
            [] r.phase = RIVER -> ProcessShowdown(SetPhase(r, SHOWDOWN))
            [] OTHER -> announce(r)

\* advanceToNextPhase that leaves the seats' street bets standing
AdvanceToNextPhaseKeepsStreetBets(g) ==
  LET r == [g EXCEPT
              !.players = [i \in Seats |->
                  [g.players[i] EXCEPT !.hasActed = FALSE]],
              !.currentBet = 0]
      announce(x) ==
        LET a == SetActivePlayer(x)
        IN LogAction(a, "Action to " \o PlayerName(a.activePlayerIndex))
  IN IF Cardinality(NonFolded(r.players)) <= 1
     THEN ProcessHandCompletion(SetPhase(r, FINISHED))
     ELSE CASE r.phase = PREFLOP -> announce(SetPhase(DealFlop(r), FLOP))
            [] r.phase = FLOP -> announce(SetPhase(DealTurn(r), TURN))
            [] r.phase = TURN -> announce(SetPhase(DealRiver(r), RIVER))
            [] r.phase = RIVER -> ProcessShowdown(SetPhase(r, SHOWDOWN))
            [] OTHER -> announce(r)

AdvanceToNextPhase(g) ==
  LET r == [g EXCEPT
              !.players = [i \in Seats |->
                  [g.players[i] EXCEPT !.hasActed = FALSE, !.currentBet = 0]],
              !.currentBet = 0]
      announce(x) ==
        LET a == SetActivePlayer(x)
        IN LogAction(a, "Action to " \o PlayerName(a.activePlayerIndex))
  IN IF Cardinality(NonFolded(r.players)) <= 1
     THEN ProcessHandCompletion(SetPhase(r, FINISHED))
     ELSE CASE r.phase = PREFLOP -> announce(SetPhase(DealFlop(r), FLOP))
            [] r.phase = FLOP -> announce(SetPhase(DealTurn(r), TURN))
            [] r.phase = TURN -> announce(SetPhase(DealRiver(r), RIVER))
            [] r.phase = RIVER -> ProcessShowdown(SetPhase(r, SHOWDOWN))
            [] OTHER -> announce(r)

-----------------------------------------------------------------------------
(* PokerGame: the public operations as functions of the engine record *)

\* The engine's fields in the current state, entering a call
Engine ==
  [ players |-> players, deck |-> deck, communityCards |-> communityCards,
    pot |-> pot, currentBet |-> currentBet,
    activePlayerIndex |-> activePlayerIndex, dealerIndex |-> dealerIndex,
    smallBlindIndex |-> smallBlindIndex, bigBlindIndex |-> bigBlindIndex,
    phase |-> phase, actionLog |-> actionLog, gameActions |-> gameActions,
    handId |-> handId, isFirstAction |-> isFirstAction,
    initialStacks |-> initialStacks,
    phases |-> << >>, threw |-> FALSE ]

\* The checks of processAction without the minimum on a bet's amount
RejectsNoMinimumBet(g, action, amount) ==
  LET player == g.players[g.activePlayerIndex]
      amountToCall == g.currentBet - player.currentBet
  IN CASE action = FOLD -> FALSE
       [] action = CHECK -> amountToCall > 0
       [] action = CALL -> amountToCall <= 0
       [] action = BET -> g.currentBet > 0 \/ amount = 0
       [] action = RAISE ->
            g.currentBet = 0 \/ amount = 0 \/ amount <= g.currentBet
       [] action = ALL_IN -> FALSE
       [] OTHER -> TRUE

\* The checks of processAction that end in "return false", after the
\* check that the active seat can act
Rejects(g, action, amount) ==
  LET player == g.players[g.activePlayerIndex]
      amountToCall == g.currentBet - player.currentBet
  IN CASE action = FOLD -> FALSE
       [] action = CHECK -> amountToCall > 0
       [] action = CALL -> amountToCall <= 0
       [] action = BET ->
            g.currentBet > 0 \/ amount = 0 \/ amount < BIG_BLIND
       [] action = RAISE ->
            g.currentBet = 0 \/ amount = 0 \/ amount <= g.currentBet
       [] action = ALL_IN -> FALSE
       [] OTHER -> TRUE

\* The switch of processAction for an action that passed its checks:
\* the engine after the seat has moved its chips
ApplyAction(g, action, amount) ==
  LET idx == g.activePlayerIndex
      player == g.players[idx]
      amountToCall == g.currentBet - player.currentBet
      after ==
        CASE action = FOLD -> PlayerFold(player)
          [] action = CHECK -> PlayerCheck(player)
          [] action = CALL -> PlayerCall(player, amountToCall)
          [] action = BET -> PlayerBet(player, amount)
          [] action = RAISE -> PlayerBet(player, amount - player.currentBet)
          [] action = ALL_IN -> PlayerAllIn(player)
      actionAmount ==
        CASE action = CALL -> BetAmount(player, Min(amountToCall, player.stack))
          [] action = BET -> BetAmount(player, amount)
          [] action = RAISE -> BetAmount(player, amount - player.currentBet)
          [] action = ALL_IN -> player.stack
          [] OTHER -> 0
      newCurrentBet ==
        CASE action \in {BET, RAISE} -> after.currentBet
          [] action = ALL_IN ->
               IF after.currentBet > g.currentBet THEN after.currentBet
               ELSE g.currentBet
          [] OTHER -> g.currentBet
      actionDescription ==
        CASE action = FOLD -> PlayerName(idx) \o " folds"
          [] action = CHECK -> PlayerName(idx) \o " checks"
          [] action = CALL ->
               PlayerName(idx) \o " calls " \o ToString(actionAmount)
          [] action = BET ->
               PlayerName(idx) \o " bets " \o ToString(actionAmount)
          [] action = RAISE ->
               PlayerName(idx) \o " raises to " \o ToString(after.currentBet)
          [] action = ALL_IN ->
               PlayerName(idx) \o " goes all-in for " \o ToString(actionAmount)
      shortAction ==
        CASE action = FOLD -> "f"
          [] action = CHECK -> "x"
          [] action = CALL -> "c"
          [] action = BET -> "b" \o ToString(actionAmount)
          [] action = RAISE -> "r" \o ToString(after.currentBet)
          [] action = ALL_IN -> "allin"
      moved == [g EXCEPT !.players[idx] = after,
                         !.pot = g.pot + actionAmount,
                         !.currentBet = newCurrentBet]
      logged == LogAction(moved, actionDescription)
  IN [logged EXCEPT !.gameActions =
        Append(logged.gameActions,
               [playerId |-> idx, action |-> shortAction,
                amount |-> actionAmount, phase |-> g.phase])]

\* processAction that moves the chips before it validates the action
ProcessActionValidatesLate(g, action, amount) ==
  IF ~CanAct(g.players[g.activePlayerIndex])
  THEN [g |-> g, ret |-> "false", roundComplete |-> FALSE]
  ELSE
    LET first == [g EXCEPT !.isFirstAction = FALSE]
    IN IF action \notin PlayerAction
       THEN [g |-> first, ret |-> "false", roundComplete |-> FALSE]
       ELSE IF Rejects(first, action, amount)
       THEN [g |-> ApplyAction(first, action, amount), ret |-> "false",
             roundComplete |-> FALSE]
       ELSE
         LET next == MoveToNextPlayer(ApplyAction(first, action, amount))
             complete == IsBettingRoundComplete(next)
             done == IF complete THEN AdvanceToNextPhase(next) ELSE next
         IN [g |-> done,
             ret |-> IF done.threw THEN "throws" ELSE "true",
             roundComplete |-> complete]

\* processAction: the engine afterwards, the value returned ("throws" when
\* the call ends in an exception) and whether the round was judged complete
ProcessActionCall(g, action, amount) ==
  IF ~CanAct(g.players[g.activePlayerIndex])
  THEN [g |-> g, ret |-> "false", roundComplete |-> FALSE]
  ELSE
    LET first == [g EXCEPT !.isFirstAction = FALSE]
    IN IF Rejects(first, action, amount)
       THEN [g |-> first, ret |-> "false", roundComplete |-> FALSE]
       ELSE
         LET next == MoveToNextPlayer(ApplyAction(first, action, amount))
             complete == IsBettingRoundComplete(next)
             done == IF complete THEN AdvanceToNextPhase(next) ELSE next
         IN [g |-> done,
             ret |-> IF done.threw THEN "throws" ELSE "true",
             roundComplete |-> complete]

\* getValidActions that leaves ALL_IN out
GetValidActionsNoAllIn(g) ==
  LET player == g.players[g.activePlayerIndex]
      amountToCall == g.currentBet - player.currentBet
  IN IF ~CanAct(player) \/ g.phase = FINISHED \/ g.phase = SETUP
     THEN {}
     ELSE {FOLD}
          \cup (IF amountToCall = 0
                THEN {CHECK} \cup (IF player.stack >= BIG_BLIND THEN {BET} ELSE {})
                ELSE (IF player.stack >= amountToCall THEN {CALL} ELSE {})
                     \cup (IF player.stack > amountToCall /\ player.stack >= BIG_BLIND
                           THEN {RAISE} ELSE {}))

\* getValidActions
GetValidActions(g) ==
  LET player == g.players[g.activePlayerIndex]
      amountToCall == g.currentBet - player.currentBet
  IN IF ~CanAct(player) \/ g.phase = FINISHED \/ g.phase = SETUP
     THEN {}
     ELSE {FOLD}
          \cup (IF amountToCall = 0
                THEN {CHECK} \cup (IF player.stack >= BIG_BLIND THEN {BET} ELSE {})
                ELSE (IF player.stack >= amountToCall THEN {CALL} ELSE {})
                     \cup (IF player.stack > amountToCall /\ player.stack >= BIG_BLIND
                           THEN {RAISE} ELSE {}))
          \cup (IF player.stack > 0 THEN {ALL_IN} ELSE {})

\* initialStacks[i] || 1000 in generateHandResult
InitialStackOrDefault(g, i) ==
  IF i + 1 \in DOMAIN g.initialStacks /\ g.initialStacks[i + 1] # 0
  THEN g.initialStacks[i + 1]
  ELSE DefaultStack

\* generateHandResult (the timestamp is left out)
GenerateHandResult(g) ==
  [ handId |-> g.handId,
    stackSettings |-> g.initialStacks,
    positions |-> [dealer |-> g.dealerIndex, smallBlind |-> g.smallBlindIndex,
                   bigBlind |-> g.bigBlindIndex],
    holeCards |-> [i \in Seats |-> GetHoleCardsString(g.players[i])],
    actionSequence |->
      Join([k \in 1 .. Len(g.gameActions) |-> g.gameActions[k].action], " "),
    winnings |-> [i \in Seats |-> g.players[i].stack - InitialStackOrDefault(g, i)] ]

-----------------------------------------------------------------------------
(* startNewHand *)

\* The uuid of hand number n; distinct hands get distinct ids
NewHandId(n) == "hand-" \o ToString(n)

\* resetForNewHand that keeps dealing from the deck of the hand before
ResetFieldsKeepsDeck(g, n, k) ==
  [g EXCEPT !.handId = NewHandId(n),
            !.communityCards = << >>,
            !.pot = 0,
            !.currentBet = 0,
            !.actionLog = << >>,
            !.gameActions = << >>,
            !.phase = SETUP,
            !.phases = Append(g.phases, SETUP),
            !.isFirstAction = TRUE,
            !.players = [i \in Seats |-> PlayerReset(g.players[i])]]

\* resetForNewHand up to the search for the dealer; k is the shuffle outcome
ResetFields(g, n, k) ==
  [g EXCEPT !.handId = NewHandId(n),
            !.deck = DeckReset(k),
            !.communityCards = << >>,
            !.pot = 0,
            !.currentBet = 0,
            !.actionLog = << >>,
            !.gameActions = << >>,
            !.phase = SETUP,
            !.phases = Append(g.phases, SETUP),
            !.isFirstAction = TRUE,
            !.players = [i \in Seats |-> PlayerReset(g.players[i])]]

\* resetForNewHand: the three searches; the first one throws when no seat
\* has chips, and then nothing after it runs
ResetForNewHand(g, n, k) ==
  LET r == ResetFields(g, n, k)
  IN IF FindNextPlayerWithChipsThrows(r.players, r.dealerIndex)
     THEN [r EXCEPT !.threw = TRUE]
     ELSE
       LET dealer == FindNextPlayerWithChips(r.players, r.dealerIndex)
           small == FindNextPlayerWithChips(r.players, dealer)
           big == FindNextPlayerWithChips(r.players, small)
       IN [r EXCEPT !.dealerIndex = dealer,
                    !.smallBlindIndex = small,
                    !.bigBlindIndex = big]

\* postBlinds that takes the small blind from the seat and leaves it out of
\* the pot
PostBlindsDropsSmallBlind(g) ==
  LET sb == [g EXCEPT !.players[g.smallBlindIndex] = PlayerBet(@, SMALL_BLIND)]
      bbAmount == BetAmount(sb.players[sb.bigBlindIndex], BIG_BLIND)
  IN [sb EXCEPT !.players[sb.bigBlindIndex] = PlayerBet(@, BIG_BLIND),
                !.pot = sb.pot + bbAmount,
                !.currentBet = BIG_BLIND]

PostBlinds(g) ==
  LET sbAmount == BetAmount(g.players[g.smallBlindIndex], SMALL_BLIND)
      sb == [g EXCEPT !.players[g.smallBlindIndex] = PlayerBet(@, SMALL_BLIND),
                      !.pot = g.pot + sbAmount]
      bbAmount == BetAmount(sb.players[sb.bigBlindIndex], BIG_BLIND)
  IN [sb EXCEPT !.players[sb.bigBlindIndex] = PlayerBet(@, BIG_BLIND),
                !.pot = sb.pot + bbAmount,
                !.currentBet = BIG_BLIND]

\* dealHoleCards giving each seat its two cards at once
DealHoleCardsSeatMajor(g) ==
  [g EXCEPT
     !.players = [s \in Seats |->
        LET i == (s - g.dealerIndex - 1 + NumSeats) % NumSeats
        IN [g.players[s] EXCEPT !.holeCards =
              @ \o << g.deck[Len(g.deck) - 2 * i],
                      g.deck[Len(g.deck) - 2 * i - 1] >>]],
     !.deck = SubSeq(g.deck, 1, Len(g.deck) - 2 * NumSeats)]

\* The double loop of dealHoleCards from its deal number n (0 .. 11) on
RECURSIVE DealHoleLoop(_, _)
DealHoleLoop(g, n) ==
  IF n >= 2 * NumSeats THEN g
  ELSE LET playerIndex == (g.dealerIndex + 1 + (n % NumSeats)) % NumSeats
       IN DealHoleLoop(
            [g EXCEPT !.players[playerIndex].holeCards = Append(@, DeckTop(g.deck)),
                      !.deck = DeckRest(g.deck)],
            n + 1)

DealHoleCards(g) == DealHoleLoop(g, 0)

StartNewHandCall(g, n, k) ==
  LET r == ResetForNewHand(g, n, k)
  IN IF r.threw THEN r
     ELSE
       LET a == SetActivePlayer(SetPhase(DealHoleCards(PostBlinds(r)), PREFLOP))
       IN [a EXCEPT !.actionLog = a.actionLog \o
            << "=== NEW HAND STARTED ===",
               "Dealer: " \o PlayerName(a.dealerIndex),
               "Small Blind: " \o PlayerName(a.smallBlindIndex) \o " posts "
                  \o ToString(SMALL_BLIND),
               "Big Blind: " \o PlayerName(a.bigBlindIndex) \o " posts "
                  \o ToString(BIG_BLIND),
               "*** PREFLOP *** - Action to " \o PlayerName(a.activePlayerIndex) >>]

\* setPlayerStacks for six values
SetPlayerStacksCall(g, stacks) ==
  [g EXCEPT !.initialStacks = stacks,
            !.players = [i \in Seats |-> [g.players[i] EXCEPT !.stack = stacks[i + 1]]]]

-----------------------------------------------------------------------------
(* The state machine *)

\* The engine's fields after a call
Becomes(g) ==
  /\ players' = g.players
  /\ deck' = g.deck
  /\ communityCards' = g.communityCards
  /\ pot' = g.pot
  /\ currentBet' = g.currentBet
  /\ activePlayerIndex' = g.activePlayerIndex
  /\ dealerIndex' = g.dealerIndex
  /\ smallBlindIndex' = g.smallBlindIndex
  /\ bigBlindIndex' = g.bigBlindIndex
  /\ phase' = g.phase
  /\ actionLog' = g.actionLog
  /\ gameActions' = g.gameActions
  /\ handId' = g.handId
  /\ isFirstAction' = g.isFirstAction
  /\ initialStacks' = g.initialStacks

Called(op, action, ret, phases, roundComplete) ==
  [ op |-> op, action |-> action, ret |-> ret,
    phases |-> phases, roundComplete |-> roundComplete ]

StacksOf(ps) == [i \in Seats |-> ps[i].stack]

\* new PokerGame(): six seats with 1000 chips and a shuffled deck
Init ==
  /\ players = [i \in Seats |-> NewPlayer(DefaultStack)]
  /\ deck \in {DeckReset(k) : k \in 1 .. NumShuffles}
  /\ communityCards = << >>
  /\ pot = 0
  /\ currentBet = 0
  /\ activePlayerIndex = 0
  /\ dealerIndex = 0
  /\ smallBlindIndex = 0
  /\ bigBlindIndex = 0
  /\ phase = SETUP
  /\ actionLog = << >>
  /\ gameActions = << >>
  /\ handId = ""
  /\ isFirstAction = TRUE
  /\ initialStacks = << >>
  /\ lastCall = Called("constructor", "", "void", << >>, FALSE)
  /\ handStartStacks = [i \in Seats |-> DefaultStack]
  /\ handsStarted = 0
  /\ actionCount = 0
  /\ raiseCount = 0
  /\ handHistory = << >>
  /\ gameState = [phase |-> SETUP, isFirstAction |-> TRUE]
  /\ validActions = {}
  /\ betAmount = BIG_BLIND
  /\ playerStacks = [i \in 1 .. NumSeats |-> DefaultStack]

\* The caller configures the stacks first: setPlayerStacks is the first
\* successful call on a new engine and is not called again
Configured == initialStacks # << >>

\* setPlayerStacks(stacks)
SetPlayerStacks(stacks) ==
  /\ ~Configured
  /\ IF Len(stacks) # NumSeats
     THEN /\ UNCHANGED engine
          /\ lastCall' = Called("setPlayerStacks", "", "throws", << >>, FALSE)
     ELSE /\ Becomes(SetPlayerStacksCall(Engine, stacks))
          /\ lastCall' = Called("setPlayerStacks", "", "void", << >>, FALSE)
  /\ UNCHANGED <<handStartStacks, handsStarted, actionCount, raiseCount>>
  /\ UNCHANGED page

\* startNewHand(), with shuffle outcome k
StartNewHand(k) ==
  /\ Configured
  /\ handsStarted < MaxHands
  /\ actionCount < MaxActions
  /\ \E g \in {StartNewHandCall(Engine, handsStarted + 1, k)} :
        /\ Becomes(g)
        /\ lastCall' = Called("startNewHand", "",
                              IF g.threw THEN "throws" ELSE "void",
                              g.phases, FALSE)
  /\ handStartStacks' = StacksOf(players)
  /\ handsStarted' = handsStarted + 1
  /\ actionCount' = actionCount + 1
  /\ UNCHANGED raiseCount
  /\ UNCHANGED page

\* processAction(action, amount)
ProcessAction(action, amount) ==
  \E r \in {ProcessActionCall(Engine, action, amount)} :
  LET raises == action \in {BET, RAISE, ALL_IN}
  IN /\ Configured
     /\ r.ret # "false" => actionCount < MaxActions
     /\ (r.ret # "false" /\ raises) => raiseCount < MaxRaises
     /\ Becomes(r.g)
     /\ lastCall' = Called("processAction", action, r.ret,
                           r.g.phases, r.roundComplete)
     /\ actionCount' = IF r.ret = "false" THEN actionCount ELSE actionCount + 1
     /\ raiseCount' = IF r.ret # "false" /\ raises THEN raiseCount + 1 ELSE raiseCount
     /\ UNCHANGED <<handStartStacks, handsStarted>>
     /\ UNCHANGED page

\* generateHandResult(): the record is GenerateHandResult(Engine); the call
\* has no check and no exit other than returning it
GenerateHandResultCall ==
  /\ Configured
  /\ lastCall' = Called("generateHandResult", "", "returns", << >>, FALSE)
  /\ UNCHANGED engine
  /\ UNCHANGED <<handStartStacks, handsStarted, actionCount, raiseCount>>
  /\ UNCHANGED page

\* What getGameState returns: copies of the fields, the deck, the tokens and
\* the initial stacks left out
GetGameState(g) ==
  [ phase |-> g.phase, players |-> g.players,
    communityCards |-> g.communityCards, pot |-> g.pot,
    currentBet |-> g.currentBet, activePlayerIndex |-> g.activePlayerIndex,
    dealerIndex |-> g.dealerIndex, smallBlindIndex |-> g.smallBlindIndex,
    bigBlindIndex |-> g.bigBlindIndex, actionLog |-> g.actionLog,
    handId |-> g.handId, isFirstAction |-> g.isFirstAction ]

\* getGameState that hands the action log over and empties it
GetGameStateDrainsLog ==
  /\ Configured
  /\ lastCall' = Called("getGameState", "", "returns", << >>, FALSE)
  /\ actionLog' = << >>
  /\ UNCHANGED <<players, deck, communityCards, pot, currentBet,
                 activePlayerIndex, dealerIndex, smallBlindIndex,
                 bigBlindIndex, phase, gameActions, handId, isFirstAction,
                 initialStacks>>
  /\ UNCHANGED <<handStartStacks, handsStarted, actionCount, raiseCount>>
  /\ UNCHANGED page

\* getGameState(): the record is GetGameState(Engine)
GetGameStateCall ==
  /\ Configured
  /\ lastCall' = Called("getGameState", "", "returns", << >>, FALSE)
  /\ UNCHANGED engine
  /\ UNCHANGED <<handStartStacks, handsStarted, actionCount, raiseCount>>
  /\ UNCHANGED page

\* getValidActions(): the list is GetValidActions(Engine)
GetValidActionsCall ==
  /\ Configured
  /\ lastCall' = Called("getValidActions", "", "returns", << >>, FALSE)
  /\ UNCHANGED engine
  /\ UNCHANGED <<handStartStacks, handsStarted, actionCount, raiseCount>>
  /\ UNCHANGED page

Next ==
  \/ GenerateHandResultCall
  \/ GetGameStateCall
  \/ GetValidActionsCall
  \/ \E stacks \in StackSettings : SetPlayerStacks(stacks)
  \/ \E k \in 1 .. NumShuffles : StartNewHand(k)
  \/ \E input \in ActionInputs : ProcessAction(input[1], input[2])

Spec == Init /\ [][Next]_vars

-----------------------------------------------------------------------------
(* Properties *)

BettingPhases == {PREFLOP, FLOP, TURN, RIVER}

TotalStacks(ps) == SumOver(StacksOf(ps), Seats)

TotalBets(ps) == SumOver([i \in Seats |-> ps[i].totalBetThisHand], Seats)

\* The step is a processAction call that returned true
Accepted == lastCall'.op = "processAction" /\ lastCall'.ret = "true"

\* The step is a processAction call that returned false
Rejected == lastCall'.op = "processAction" /\ lastCall'.ret = "false"

\* C1: once a hand has been started, pot plus the six stacks equals the sum
\* of the stacks the hand started with, also after the settling action.
ChipConservation ==
  handsStarted > 0 => pot + TotalStacks(players) = SumOver(handStartStacks, Seats)

\* C2: once a hand has been started, pot equals the sum of the six seats'
\* totalBetThisHand.
PotConsistency ==
  handsStarted > 0 => pot = TotalBets(players)

\* A hand in which chips went in after the blinds
PotConsistencyWitness ==
  /\ handsStarted > 0
  /\ lastCall.op = "processAction"
  /\ lastCall.ret = "true"
  /\ lastCall.action \in {CALL, BET, RAISE, ALL_IN}
  /\ pot > SMALL_BLIND + BIG_BLIND

\* C3: a processAction call whose action is not in getValidActions() of the
\* state it is made in returns false and changes no stack, pot, currentBet,
\* phase, active seat, log entry or token.
Legality ==
  [][ (lastCall'.op = "processAction"
         /\ lastCall'.action \notin GetValidActions(Engine))
      => /\ lastCall'.ret = "false"
         /\ UNCHANGED <<players, pot, currentBet, phase, activePlayerIndex,
                        actionLog, gameActions>> ]_vars

\* C4: a processAction call that returns false leaves every field of the
\* engine as it was, isFirstAction, the log and the tokens included.
RejectionLeavesEngineUnchanged ==
  [][ Rejected => UNCHANGED engine ]_vars

\* C5: in PREFLOP, FLOP, TURN and RIVER some processAction call is accepted,
\* so that the caller can always drive the hand on towards FINISHED.
BettingPhaseNotStuck ==
  phase \in BettingPhases =>
    \E input \in ActionInputs :
       ProcessActionCall(Engine, input[1], input[2]).ret # "false"

\* C6: after a processAction call that returned true, the phase differs from
\* the phase before the call or the new active seat can act.
Progress ==
  [][ Accepted => (phase' # phase \/ CanAct(players'[activePlayerIndex'])) ]_vars

-----------------------------------------------------------------------------
(* The standard ranking of poker hands, which C7 measures the settlement    *)
(* against: the score of a five-card hand orders hands as the rules do.     *)

CardValue(c) == CardRankIndex(c) + 1

MaxOf(S) == CHOOSE x \in S : \A y \in S : y <= x
MinOf(S) == CHOOSE x \in S : \A y \in S : x <= y

RECURSIVE Power(_, _)
Power(b, n) == IF n = 0 THEN 1 ELSE b * Power(b, n - 1)

ValueCount(hand, v) == Cardinality({c \in hand : CardValue(c) = v})

\* The values of the hand, most frequent first and then highest first, as
\* the digits of a number in base 15
RECURSIVE Kickers(_, _)
Kickers(hand, values) ==
  IF values = {} THEN 0
  ELSE LET best == CHOOSE v \in values : \A w \in values :
                     ValueCount(hand, w) * 15 + w <= ValueCount(hand, v) * 15 + v
       IN best * Power(15, Cardinality(values) - 1)
          + Kickers(hand, values \ {best})

FiveCardScore(hand) ==
  LET values == {CardValue(c) : c \in hand}
      flush == \A c, d \in hand : CardSuitIndex(c) = CardSuitIndex(d)
      wheel == values = {14, 2, 3, 4, 5}
      straight == Cardinality(values) = 5
                  /\ (wheel \/ MaxOf(values) - MinOf(values) = 4)
      pairs == Cardinality({v \in values : ValueCount(hand, v) = 2})
      trips == \E v \in values : ValueCount(hand, v) = 3
      quads == \E v \in values : ValueCount(hand, v) = 4
      category ==
        IF straight /\ flush THEN 8
        ELSE IF quads THEN 7
        ELSE IF trips /\ pairs = 1 THEN 6
        ELSE IF flush THEN 5
        ELSE IF straight THEN 4
        ELSE IF trips THEN 3
        ELSE IF pairs = 2 THEN 2
        ELSE IF pairs = 1 THEN 1
        ELSE 0
      tiebreak ==
        IF straight THEN (IF wheel THEN 5 ELSE MaxOf(values))
        ELSE Kickers(hand, values)
  IN category * Power(15, 5) + tiebreak

\* The best five of a seat's two hole cards and the community cards
BestHandScore(hole, community) ==
  LET seven == {hole[k] : k \in 1 .. Len(hole)}
                 \cup {community[k] : k \in 1 .. Len(community)}
  IN MaxOf({FiveCardScore(hand) :
              hand \in {h \in SUBSET seven : Cardinality(h) = 5}})

\* The non-folded seats whose best hand ranks highest
BestSeats(ps, community) ==
  {i \in NonFolded(ps) :
     \A j \in NonFolded(ps) :
        BestHandScore(ps[j].holeCards, community)
          <= BestHandScore(ps[i].holeCards, community)}

\* The chips the step paid to seat i, the chips it committed in the step
\* set aside
PaidTo(i) ==
  (players'[i].stack - players[i].stack)
    + (players'[i].totalBetThisHand - players[i].totalBetThisHand)

\* C7: when two or more non-folded seats, all of which started the hand with
\* chips, reach showdown, the pot goes to the seats whose best five of seven
\* cards rank highest, in even shares, and to no other seat.
ShowdownAwardsBestHand ==
  [][ (Accepted /\ phase = RIVER /\ phase' = FINISHED
         /\ Cardinality(NonFolded(players')) >= 2
         /\ \A i \in NonFolded(players') : handStartStacks[i] > 0)
      => LET best == BestSeats(players', communityCards')
         IN \A i \in Seats :
              IF i \in best
              THEN PaidTo(i) >= pot' \div Cardinality(best)
              ELSE PaidTo(i) = 0 ]_vars

\* C8: in a hand that six funded seats started, the fold that leaves one
\* seat sets the phase to FINISHED and deals nothing, the remaining seat's
\* stack grows by the whole pot, and every other seat's winnings in the
\* result record are minus what it put into the pot.
FoldOut ==
  [][ (Accepted /\ lastCall'.action = FOLD /\ phase \in BettingPhases
         /\ (\A i \in Seats : handStartStacks[i] > 0)
         /\ Cardinality(NonFolded(players')) = 1)
      => LET w == FirstNonFolded(players')
         IN /\ phase' = FINISHED
            /\ communityCards' = communityCards
            /\ players'[w].stack = players[w].stack + pot
            /\ \A i \in Seats \ {w} :
                 GenerateHandResult(Engine').winnings[i]
                   = 0 - players'[i].totalBetThisHand ]_vars

\* The number of community cards that goes with a phase
CommunityCount(ph) ==
  CASE ph \in {SETUP, PREFLOP} -> 0
    [] ph = FLOP -> 3
    [] ph = TURN -> 4
    [] OTHER -> 5

\* C9: the number of community cards is 0 in SETUP and PREFLOP, 3 in FLOP,
\* 4 in TURN and 5 in RIVER, SHOWDOWN and FINISHED.
PhaseCommunityConsistency ==
  Len(communityCards) = CommunityCount(phase)

\* C9 as amended: the table holds except in a FINISHED that was reached by
\* folding, which keeps the cards of the street the hand ended on.
PhaseCommunityUnlessFoldedOut ==
  /\ [](IF phase = FINISHED /\ Cardinality(NonFolded(players)) <= 1
        THEN Len(communityCards) \in {0, 3, 4, 5}
        ELSE Len(communityCards) = CommunityCount(phase))
  /\ [][ (phase # FINISHED /\ phase' = FINISHED
            /\ Cardinality(NonFolded(players')) <= 1)
         => communityCards' = communityCards ]_vars

\* A started hand that everyone but one seat folded before the flop
FoldedOutPreflopWitness ==
  /\ handsStarted > 0
  /\ phase = FINISHED
  /\ Cardinality(NonFolded(players)) = 1
  /\ Len(communityCards) = 0
  /\ pot > 0

\* The phase that follows ph in the order of the hand
NextPhase(ph) ==
  CASE ph = SETUP -> PREFLOP
    [] ph = PREFLOP -> FLOP
    [] ph = FLOP -> TURN
    [] ph = TURN -> RIVER
    [] ph = RIVER -> SHOWDOWN
    [] OTHER -> FINISHED

\* C10: every assignment to phase leaves it as it is, moves it to the next
\* phase of the order, jumps to FINISHED with at most one non-folded seat,
\* or is the reset to SETUP in startNewHand; processAction changes the phase
\* only when it judged the betting round complete.
PhaseOrder ==
  [][ LET path == <<phase>> \o lastCall'.phases
      IN /\ phase' = path[Len(path)]
         /\ \A k \in 1 .. (Len(path) - 1) :
              \/ path[k + 1] = path[k]
              \/ path[k + 1] = NextPhase(path[k])
              \/ path[k + 1] = FINISHED /\ Cardinality(NonFolded(players')) <= 1
              \/ path[k + 1] = SETUP /\ lastCall'.op = "startNewHand"
         /\ (phase' # phase /\ lastCall'.op = "processAction")
              => lastCall'.roundComplete ]_vars

\* A hand that went from RIVER through SHOWDOWN to FINISHED
PhaseOrderWitness ==
  /\ lastCall.op = "processAction"
  /\ lastCall.phases = <<SHOWDOWN, FINISHED>>
  /\ phase = FINISHED
  /\ Len(communityCards) = 5

-----------------------------------------------------------------------------
(* Starting a hand *)

\* The seats with chips
Funded(stacks) == {i \in Seats : stacks[i] > 0}

\* The last call was startNewHand; handStartStacks are the stacks it found
AfterStartNewHand == lastCall.op = "startNewHand"

\* C11: when two or more seats have chips at hand start, startNewHand leaves
\* the dealer, small blind and big blind on seats that had chips at hand
\* start, on the first hand and on the hands after it.
BlindSkip ==
  (AfterStartNewHand /\ Cardinality(Funded(handStartStacks)) >= 2)
    => /\ lastCall.ret = "void"
       /\ {dealerIndex, smallBlindIndex, bigBlindIndex}
            \subseteq Funded(handStartStacks)

\* A second hand whose small blind is not the seat next to the dealer,
\* because that seat has no chips
BlindSkipWitness ==
  /\ AfterStartNewHand
  /\ handsStarted = 2
  /\ Cardinality(Funded(handStartStacks)) >= 2
  /\ smallBlindIndex # (dealerIndex + 1) % NumSeats
  /\ handStartStacks[(dealerIndex + 1) % NumSeats] = 0

\* C12: startNewHand throws whenever fewer than two seats have chips, and a
\* hand that starts never has the small and the big blind on the same seat.
NoFundedSeatsError ==
  AfterStartNewHand
    => /\ Cardinality(Funded(handStartStacks)) < 2 => lastCall.ret = "throws"
       /\ lastCall.ret = "void" => smallBlindIndex # bigBlindIndex

\* C13: generateHandResult called in SETUP, PREFLOP, FLOP, TURN or RIVER
\* fails instead of returning a record.
ResultOnlyWhenFinished ==
  (lastCall.op = "generateHandResult" /\ phase # FINISHED)
    => lastCall.ret = "throws"

-----------------------------------------------------------------------------
(* The result record and the list of valid actions *)

\* C14: for every finished hand, the second and later ones included, the
\* record's stackSettings are the six stacks at the start of that hand and
\* winnings[i] is seat i's final stack minus its stack at the start of that
\* hand.
ResultRelativeToHand ==
  (phase = FINISHED /\ handsStarted > 0)
    => LET result == GenerateHandResult(Engine)
       IN /\ result.stackSettings
               = [k \in 1 .. NumSeats |-> handStartStacks[k - 1]]
          /\ \A i \in Seats :
               result.winnings[i] = players[i].stack - handStartStacks[i]

\* The active seat, and what it has to add to match currentBet
ActiveSeat == players[activePlayerIndex]
AmountToCall == currentBet - ActiveSeat.currentBet

\* A betting phase in which the active seat can act
ActiveSeatCanAct == phase \in BettingPhases /\ CanAct(ActiveSeat)

\* C15: when the active seat can act in a betting phase, CALL is listed
\* exactly when the amount to call is greater than 0, whether or not the
\* seat's stack covers it.
CallListed ==
  ActiveSeatCanAct
    => (CALL \in GetValidActions(Engine) <=> AmountToCall > 0)

\* C16: when the active seat can act in a betting phase, RAISE is listed
\* exactly when the amount to call is greater than 0 and the stack is at
\* least the amount to call plus the big blind.
RaiseListed ==
  ActiveSeatCanAct
    => (RAISE \in GetValidActions(Engine)
          <=> (AmountToCall > 0
                 /\ ActiveSeat.stack >= AmountToCall + BIG_BLIND))

\* C17: the list is empty in SETUP and FINISHED and when no seat can act;
\* otherwise it has FOLD, has CHECK exactly when nothing is to call, BET
\* exactly when nothing is to call and the stack is at least the big blind,
\* and ALL_IN exactly when the stack is greater than 0.
ValidActionsList ==
  LET valid == GetValidActions(Engine)
  IN IF phase \in {SETUP, FINISHED} \/ \A i \in Seats : ~CanAct(players[i])
     THEN valid = {}
     ELSE /\ FOLD \in valid
          /\ CHECK \in valid <=> AmountToCall = 0
          /\ BET \in valid
               <=> (AmountToCall = 0 /\ ActiveSeat.stack >= BIG_BLIND)
          /\ ALL_IN \in valid <=> ActiveSeat.stack > 0

\* A flop on which the active seat has nothing to call and chips to bet
ValidActionsListWitness ==
  /\ phase = FLOP
  /\ AmountToCall = 0
  /\ GetValidActions(Engine) = {FOLD, CHECK, BET, ALL_IN}

\* C18: when the small-blind seat has at least 20 chips and the big-blind
\* seat at least 40, startNewHand leaves pot 60 and currentBet 40, the small
\* blind with street bet 20, the big blind with street bet 40 and every
\* other seat with nothing committed.
BlindPosting ==
  (AfterStartNewHand /\ lastCall.ret = "void"
     /\ handStartStacks[smallBlindIndex] >= SMALL_BLIND
     /\ handStartStacks[bigBlindIndex] >= BIG_BLIND)
    => /\ pot = SMALL_BLIND + BIG_BLIND
       /\ currentBet = BIG_BLIND
       /\ players[smallBlindIndex].currentBet = SMALL_BLIND
       /\ players[bigBlindIndex].currentBet = BIG_BLIND
       /\ \A i \in Seats \ {smallBlindIndex, bigBlindIndex} :
            players[i].currentBet = 0 /\ players[i].totalBetThisHand = 0

\* A hand that six seats at 1000 chips start
SixAtThousand ==
  /\ AfterStartNewHand
  /\ lastCall.ret = "void"
  /\ \A i \in Seats : handStartStacks[i] = DefaultStack

\* C19: with six seats at 1000 chips, after startNewHand the active seat is
\* the seat two positions to the left of the dealer.
FirstToActTwoLeftOfDealer ==
  SixAtThousand => activePlayerIndex = (dealerIndex + 2) % NumSeats

\* C19 as amended: the active seat is three positions to the left of the
\* dealer, the seat after the big blind.
FirstToActAfterBigBlind ==
  SixAtThousand
    => /\ activePlayerIndex = (dealerIndex + 3) % NumSeats
       /\ activePlayerIndex = (bigBlindIndex + 1) % NumSeats

\* The first hand of six seats at 1000 chips: dealer 1, blinds 2 and 3,
\* seat 4 to act
FirstToActWitness ==
  /\ SixAtThousand
  /\ dealerIndex = 1
  /\ bigBlindIndex = 3
  /\ activePlayerIndex = 4

\* C20: a processAction call that returns false changes neither the pot, nor
\* any seat's stack, nor the phase.
RejectionKeepsChipsAndPhase ==
  [][ Rejected => /\ pot' = pot
                  /\ phase' = phase
                  /\ StacksOf(players') = StacksOf(players) ]_vars

\* A bet, raise, call or check rejected in a betting phase with chips in
\* the pot
RejectionWitness ==
  /\ lastCall.op = "processAction"
  /\ lastCall.ret = "false"
  /\ lastCall.action \in {CHECK, CALL, BET, RAISE}
  /\ phase \in BettingPhases
  /\ pot > 0

-----------------------------------------------------------------------------
(* Hand history tokens *)

\* s.split(sep) for a one-character separator
RECURSIVE SplitLoop(_, _, _, _, _)
SplitLoop(s, sep, i, cur, acc) ==
  IF i > Len(s) THEN Append(acc, cur)
  ELSE IF SubSeq(s, i, i) = sep
       THEN SplitLoop(s, sep, i + 1, "", Append(acc, cur))
       ELSE SplitLoop(s, sep, i + 1, cur \o SubSeq(s, i, i), acc)

Split(s, sep) == SplitLoop(s, sep, 1, "", << >>)

Tokens(actions) == [k \in 1 .. Len(actions) |-> actions[k].action]

\* The token of the action of this step: the amount committed is what the
\* pot gained, the raise-to total is the seat's street bet plus that amount
ActionToken ==
  LET committed == pot' - pot
  IN CASE lastCall'.action = FOLD -> "f"
       [] lastCall'.action = CHECK -> "x"
       [] lastCall'.action = CALL -> "c"
       [] lastCall'.action = BET -> "b" \o ToString(committed)
       [] lastCall'.action = RAISE ->
            "r" \o ToString(players[activePlayerIndex].currentBet + committed)
       [] lastCall'.action = ALL_IN -> "allin"

IsStreet(ph) == ph \in {FLOP, TURN, RIVER}

StreetToken(ph) ==
  CASE ph = FLOP -> Join(CardStrings(SubSeq(communityCards', 1, 3)), "")
    [] ph = TURN -> CardToString(communityCards'[4])
    [] ph = RIVER -> CardToString(communityCards'[5])

\* The card tokens of the streets dealt in this step
RevealTokens ==
  LET streets == SelectSeq(lastCall'.phases, IsStreet)
  IN [k \in 1 .. Len(streets) |-> StreetToken(streets[k])]

\* C21: in a finished hand, splitting the result's actionSequence on single
\* spaces gives back the list of tokens; every accepted action appends its
\* one token (f, x, c, b<committed>, r<raise-to total>, allin) followed by
\* one card token for each street it caused to be dealt, a rejected action
\* appends nothing, and a new hand starts with no token.
TokenSerialization ==
  /\ [](phase = FINISHED =>
         Split(GenerateHandResult(Engine).actionSequence, " ")
           = Tokens(gameActions))
  /\ [][ /\ Accepted =>
             Tokens(gameActions')
               = Tokens(gameActions) \o <<ActionToken>> \o RevealTokens
         /\ Rejected => gameActions' = gameActions
         /\ (lastCall'.op = "startNewHand" /\ lastCall'.ret = "void")
              => gameActions' = << >> ]_vars

\* A hand that went through all three streets after a bet or raise and
\* was settled
TokenSerializationWitness ==
  /\ phase = FINISHED
  /\ \A i \in Seats : handStartStacks[i] > 0
  /\ lastCall.op = "processAction"
  /\ lastCall.ret = "true"
  /\ Len(communityCards) = 5
  /\ \E k \in 1 .. Len(gameActions) :
        /\ gameActions[k].playerId # -1
        /\ gameActions[k].action \notin {"f", "x", "c", "allin"}
  /\ Len(Split(GenerateHandResult(Engine).actionSequence, " ")) > 6

-----------------------------------------------------------------------------
(* Rejected bets and raises *)

\* The amounts a bet or raise is tried with; 0 is a call without an amount
TriedAmounts == {0, 10, 39, 40, 80, 2000}

\* The call returns false and leaves the stacks, pot and currentBet alone
RejectedKeeping(r) ==
  /\ r.ret = "false"
  /\ StacksOf(r.g.players) = StacksOf(players)
  /\ r.g.pot = pot
  /\ r.g.currentBet = currentBet

\* C22: BET is rejected, with the stacks, pot and currentBet unchanged, when
\* currentBet > 0 or the amount is missing or below the big blind; RAISE is
\* rejected likewise when currentBet = 0 or the amount is missing or not
\* greater than currentBet.
BetRaiseRejection ==
  \A amount \in TriedAmounts :
    /\ (currentBet > 0 \/ amount = 0 \/ amount < BIG_BLIND)
         => RejectedKeeping(ProcessActionCall(Engine, BET, amount))
    /\ (currentBet = 0 \/ amount = 0 \/ amount <= currentBet)
         => RejectedKeeping(ProcessActionCall(Engine, RAISE, amount))

\* A bet of 10 or of no amount was rejected with currentBet = 0 on a street
\* where the seat could have bet
BetRaiseRejectionWitness ==
  /\ lastCall.op = "processAction"
  /\ lastCall.action = BET
  /\ lastCall.ret = "false"
  /\ \A i \in Seats : handStartStacks[i] > 0
  /\ phase \in {FLOP, TURN, RIVER}
  /\ currentBet = 0
  /\ CanAct(players[activePlayerIndex])
  /\ players[activePlayerIndex].stack >= BIG_BLIND

-----------------------------------------------------------------------------
(* The deck *)

\* One card is burnt before the flop, the turn and the river
Burnt ==
  (IF Len(communityCards) >= 3 THEN 1 ELSE 0)
    + (IF Len(communityCards) >= 4 THEN 1 ELSE 0)
    + (IF Len(communityCards) >= 5 THEN 1 ELSE 0)

\* The cards that have left the deck since it was last reset
Dealt ==
  SumOver([i \in Seats |-> Len(players[i].holeCards)], Seats)
    + Len(communityCards) + Burnt

IsPrefix(s, t) == Len(s) <= Len(t) /\ s = SubSeq(t, 1, Len(s))

\* C23: Deck.deal is never called on an empty deck: the deck is reset to 52
\* cards at each startNewHand and only loses cards by deal, and a hand
\* takes at most 12 hole cards, 3 burns and 5 community cards from it.
DeckNeverExhausted ==
  /\ [](/\ Len(deck) = DeckSize - Dealt
         /\ Dealt <= 2 * NumSeats + 3 + 5
         /\ Len(deck) > 0)
  /\ [][ IF lastCall'.op = "startNewHand"
         THEN \E k \in 1 .. NumShuffles : IsPrefix(deck', DeckReset(k))
         ELSE IsPrefix(deck', deck) ]_vars

\* The river has been dealt in a hand that six funded seats started
DeckNeverExhaustedWitness ==
  /\ \A i \in Seats : handStartStacks[i] > 0
  /\ Len(communityCards) = 5
  /\ Len(deck) = DeckSize - 20

-----------------------------------------------------------------------------
(* The read-only calls *)

QueryOps == {"getGameState", "getValidActions", "generateHandResult"}

\* C24: getGameState, getValidActions and generateHandResult leave every
\* field of the engine unchanged.
QueriesChangeNothing ==
  [][ lastCall'.op \in QueryOps => UNCHANGED engine ]_vars

\* getGameState was called in the middle of a hand, after chips went in
QueriesChangeNothingWitness ==
  /\ lastCall.op = "getGameState"
  /\ GetGameState(Engine).phase \in {FLOP, TURN, RIVER}
  /\ GetGameState(Engine).pot > SMALL_BLIND + BIG_BLIND
  /\ GetValidActions(Engine) # GetValidActions([Engine EXCEPT !.phase = SETUP])
  /\ GenerateHandResult(Engine).actionSequence # ""

-----------------------------------------------------------------------------
(* Checking a street through *)

\* The step is an accepted CHECK
AcceptedCheck == Accepted /\ lastCall'.action = CHECK

\* Every other seat that can act has acted on this street
LastToAct ==
  \A i \in Seats \ {activePlayerIndex} :
     CanAct(players[i]) => players[i].hasActed

\* An accepted CHECK leaves the pot alone and, unless it closes the round,
\* the stacks and currentBet too
CheckMovesNoChips ==
  [][ AcceptedCheck =>
        /\ pot' = pot
        /\ ~lastCall'.roundComplete =>
             (StacksOf(players') = StacksOf(players) /\ currentBet' = currentBet)
     ]_vars

\* C25: an accepted CHECK changes no stack and leaves pot and currentBet
\* unchanged while the round stays open, and on FLOP, TURN or RIVER with no
\* bet made the round closes exactly at the CHECK of the last seat that can
\* act; the pot at the close is the pot the street began with.
CheckThrough ==
  [][ AcceptedCheck =>
        /\ pot' = pot
        /\ ~lastCall'.roundComplete =>
             (StacksOf(players') = StacksOf(players) /\ currentBet' = currentBet)
        /\ (phase \in {FLOP, TURN, RIVER} /\ currentBet = 0) =>
             (lastCall'.roundComplete <=> LastToAct)
     ]_vars

-----------------------------------------------------------------------------
(* Outside a hand *)

\* C26: while the phase is SETUP or FINISHED every processAction call
\* returns false and changes no stack, nor the pot, the log or the tokens.
NoActionOutsideHand ==
  [][ (lastCall'.op = "processAction" /\ phase \in {SETUP, FINISHED})
      => /\ lastCall'.ret = "false"
         /\ StacksOf(players') = StacksOf(players)
         /\ UNCHANGED <<pot, actionLog, gameActions>> ]_vars

-----------------------------------------------------------------------------
(* Paying the pot *)

\* C27: the pot is paid at most once per hand: once the hand is FINISHED no
\* processAction call raises a stack, and the sum of the stacks never
\* exceeds the sum of the stacks the hand started with.
PotPaidOnce ==
  /\ [](handsStarted > 0 =>
          TotalStacks(players) <= SumOver(handStartStacks, Seats))
  /\ [][ (handsStarted > 0 /\ phase = FINISHED
            /\ lastCall'.op = "processAction")
         => \A i \in Seats : players'[i].stack <= players[i].stack ]_vars

-----------------------------------------------------------------------------
(* Closing a betting round *)

\* The seat's street bet equals currentBet, or the seat is all-in or broke
BetMatched(g, i) ==
  \/ g.players[i].currentBet = g.currentBet
  \/ g.players[i].isAllIn
  \/ g.players[i].stack = 0

\* C28: a betting round never closes on an unmatched bet: when an accepted
\* action moves the phase on and two or more seats have not folded, every
\* such seat has, after the action and before the per-street reset, a
\* street bet equal to currentBet, or is all-in, or has no chips.
RoundClosesMatched ==
  \A input \in ActionInputs :
    LET r == ProcessActionCall(Engine, input[1], input[2])
    IN (handsStarted > 0 /\ phase \in BettingPhases
          /\ r.ret = "true" /\ r.g.phase # phase)
       => LET before == ApplyAction(Engine, input[1], input[2])
          IN Cardinality(NonFolded(before.players)) >= 2
               => \A i \in NonFolded(before.players) : BetMatched(before, i)

-----------------------------------------------------------------------------
(* The big blind's option *)

\* The big blind seat has had an action accepted before the flop
BigBlindActedPreflop(actions) ==
  \E k \in 1 .. Len(actions) :
     actions[k].playerId = bigBlindIndex /\ actions[k].phase = PREFLOP

\* C29: when an accepted action closes the PREFLOP round with two or more
\* seats not folded and the big blind seat able to act, the big blind seat
\* has had an action of its own accepted in PREFLOP; posting the blind is
\* not such an action.
BigBlindOption ==
  [][ (/\ handsStarted > 0
       /\ phase = PREFLOP
       /\ Accepted
       /\ phase' # PREFLOP
       /\ Cardinality(NonFolded(players')) >= 2
       /\ CanAct(players'[bigBlindIndex]))
      => BigBlindActedPreflop(gameActions') ]_vars

-----------------------------------------------------------------------------
(* The seat that is paid *)

\* C30: the seat that receives the pot when a hand is settled has not
\* folded and has put chips into the pot (totalBetThisHand > 0); a seat that
\* started the hand with no chips is never paid.
RecipientHasStake ==
  [][ (handsStarted > 0 /\ phase \in BettingPhases /\ Accepted
         /\ phase' = FINISHED)
      => \A i \in Seats :
            PaidTo(i) > 0 =>
              /\ ~players'[i].hasFolded
              /\ players'[i].totalBetThisHand > 0
              /\ handStartStacks[i] > 0 ]_vars

-----------------------------------------------------------------------------
(* The bet to match *)

\* C31: within a street currentBet never decreases: an accepted action in a
\* betting phase leaves currentBet at least as high as before, unless the
\* call also advances the phase and resets it to 0.
CurrentBetMonotone ==
  [][ (handsStarted > 0 /\ phase \in BettingPhases /\ Accepted)
      => \/ currentBet' >= currentBet
         \/ (phase' # phase /\ currentBet' = 0) ]_vars

-----------------------------------------------------------------------------
(* Chips committed by an action *)

\* C32: an accepted action commits a non-negative number of chips: it does
\* not lower the pot, and no stack grows unless the call settles the hand.
NonNegativeCommit ==
  [][ (handsStarted > 0 /\ phase \in BettingPhases /\ Accepted)
      => /\ pot' >= pot
         /\ phase' # FINISHED =>
              \A i \in Seats : players'[i].stack <= players[i].stack ]_vars

-----------------------------------------------------------------------------
(* Listed actions *)

\* The amount a listed action is made with: the big blind for BET, currentBet
\* plus the big blind for RAISE
ListedAmount(action) ==
  CASE action = BET -> BIG_BLIND
    [] action = RAISE -> currentBet + BIG_BLIND
    [] OTHER -> 0

\* C33: every action that getValidActions() lists is accepted: processAction
\* with it returns true.
ListedIsAccepted ==
  \A action \in GetValidActions(Engine) :
     ProcessActionCall(Engine, action, ListedAmount(action)).ret = "true"

-----------------------------------------------------------------------------
(* The winnings of the result record *)

\* The step settles a hand that was being played
SettlesHand ==
  /\ handsStarted > 0
  /\ phase \in BettingPhases
  /\ Accepted
  /\ phase' = FINISHED

\* C34: when the first hand finishes, the six winnings of the result record
\* sum to 0, whatever stacks setPlayerStacks was given, zeros included.
WinningsZeroSum ==
  [][ (SettlesHand /\ handsStarted = 1)
      => SumOver(GenerateHandResult(Engine').winnings, Seats) = 0 ]_vars

-----------------------------------------------------------------------------
(* Chips over a hand *)

\* C35: a hand neither creates nor destroys chips: when an action settles
\* the hand, the six stacks sum to what they summed to just before the
\* hand's startNewHand.
HandConservesChips ==
  [][ SettlesHand
      => TotalStacks(players') = SumOver(handStartStacks, Seats) ]_vars

\* A hand of six funded seats was settled at showdown after a bet or raise
HandConservesChipsWitness ==
  /\ handsStarted > 0
  /\ \A i \in Seats : handStartStacks[i] > 0
  /\ phase = FINISHED
  /\ lastCall.op = "processAction"
  /\ lastCall.ret = "true"
  /\ lastCall.phases = <<SHOWDOWN, FINISHED>>
  /\ pot > 2 * (SMALL_BLIND + BIG_BLIND)
  /\ TotalStacks(players) = SumOver(handStartStacks, Seats)
  /\ \E i \in Seats : players[i].stack > handStartStacks[i]

-----------------------------------------------------------------------------
(* The first seat to act on a street *)

\* The first seat that can act, scanning clockwise from seat start
FirstCanActFrom(ps, start) ==
  LET d == CHOOSE k \in 0 .. NumSeats - 1 :
             /\ CanAct(ps[(start + k) % NumSeats])
             /\ \A j \in 0 .. k - 1 : ~CanAct(ps[(start + j) % NumSeats])
  IN (start + d) % NumSeats

\* C36: when some seat can act, after startNewHand the active seat is the
\* first seat that can act clockwise from bigBlindIndex + 1, and after a
\* transition to FLOP, TURN or RIVER it is the first such seat clockwise
\* from dealerIndex + 1.
StreetFirstActor ==
  [][ (\E i \in Seats : CanAct(players'[i])) =>
        /\ (lastCall'.op = "startNewHand" /\ lastCall'.ret = "void")
             => activePlayerIndex'
                  = FirstCanActFrom(players', (bigBlindIndex' + 1) % NumSeats)
        /\ (Accepted /\ phase' # phase /\ phase' \in {FLOP, TURN, RIVER})
             => activePlayerIndex'
                  = FirstCanActFrom(players', (dealerIndex' + 1) % NumSeats)
    ]_vars

\* A flop dealt in a hand of six funded seats on which the seat left of the
\* dealer cannot act and the search has moved on
StreetFirstActorWitness ==
  /\ \A i \in Seats : handStartStacks[i] > 0
  /\ lastCall.op = "processAction"
  /\ lastCall.ret = "true"
  /\ lastCall.phases = <<FLOP>>
  /\ phase = FLOP
  /\ ~CanAct(players[(dealerIndex + 1) % NumSeats])
  /\ CanAct(players[activePlayerIndex])
  /\ activePlayerIndex # (dealerIndex + 1) % NumSeats

-----------------------------------------------------------------------------
(* The reset between streets *)

\* The seats' fields that the reset leaves alone
KeptByReset(ps) ==
  [i \in Seats |-> <<ps[i].totalBetThisHand, ps[i].hasFolded, ps[i].isAllIn>>]

\* C37: after an accepted action that advances the phase to FLOP, TURN,
\* RIVER or FINISHED, currentBet is 0 and every seat has street bet 0 and
\* hasActed false, and each seat's totalBetThisHand, hasFolded and isAllIn
\* are what the action itself left, before the reset.
StreetReset ==
  \A input \in ActionInputs :
    \E r \in {ProcessActionCall(Engine, input[1], input[2])} :
      (r.ret = "true" /\ r.g.phase # phase
         /\ r.g.phase \in {FLOP, TURN, RIVER, FINISHED})
      => /\ r.g.currentBet = 0
         /\ \A i \in Seats :
              r.g.players[i].currentBet = 0 /\ ~r.g.players[i].hasActed
         /\ KeptByReset(r.g.players)
              = KeptByReset(ApplyAction(Engine, input[1], input[2]).players)

\* A call closed the PREFLOP round of six funded seats with a raise in it,
\* and the flop was dealt
StreetResetWitness ==
  /\ \A i \in Seats : handStartStacks[i] > 0
  /\ lastCall.op = "processAction"
  /\ lastCall.ret = "true"
  /\ lastCall.action = CALL
  /\ lastCall.phases = <<FLOP>>
  /\ currentBet = 0
  /\ \E i \in Seats : players[i].totalBetThisHand > BIG_BLIND
  /\ \A i \in Seats : players[i].currentBet = 0 /\ ~players[i].hasActed

-----------------------------------------------------------------------------
(* Seat funds *)

\* C38: no stack is negative and the pot is not negative; in PREFLOP, FLOP,
\* TURN and RIVER a seat marked all-in has stack 0; a seat whose stack goes
\* to 0 in a startNewHand or processAction call is marked all-in; and the
\* seat whose action is accepted in a betting phase is not marked all-in.
SeatFunds ==
  /\ [](/\ pot >= 0
        /\ \A i \in Seats : players[i].stack >= 0
        /\ phase \in BettingPhases =>
             \A i \in Seats : players[i].isAllIn => players[i].stack = 0)
  /\ [][ /\ lastCall'.op \in {"startNewHand", "processAction"} =>
              \A i \in Seats :
                 (players[i].stack > 0 /\ players'[i].stack = 0)
                    => players'[i].isAllIn
         /\ (Accepted /\ phase \in BettingPhases) =>
              ~players[activePlayerIndex].isAllIn ]_vars

\* In a hand of six funded seats a seat outside the blinds has just put
\* its whole stack in with a call, bet or raise and is marked all-in
SeatFundsWitness ==
  /\ \A i \in Seats : handStartStacks[i] > 0
  /\ phase \in BettingPhases
  /\ lastCall.op = "processAction"
  /\ lastCall.ret = "true"
  /\ lastCall.action \in {CALL, RAISE, BET}
  /\ \E i \in Seats :
        /\ players[i].isAllIn
        /\ players[i].stack = 0
        /\ players[i].totalBetThisHand = handStartStacks[i]
        /\ i \notin {smallBlindIndex, bigBlindIndex}

-----------------------------------------------------------------------------
(* Dealing *)

\* The cards held by the seats and the board, as a set and as a count
HeldCards ==
  UNION {{players[i].holeCards[n] : n \in 1 .. Len(players[i].holeCards)}
           : i \in Seats}
    \cup {communityCards[n] : n \in 1 .. Len(communityCards)}

HeldCount ==
  SumOver([i \in Seats |-> Len(players[i].holeCards)], Seats)
    + Len(communityCards)

\* C39: a startNewHand that returns leaves every seat with exactly two hole
\* cards, the seat i places after dealerIndex + 1 holding deal number i and
\* deal number 6 + i of the freshly reset deck; and in every state the hole
\* cards and community cards are pairwise distinct cards of the 52.
DealingRoundRobin ==
  /\ [](/\ HeldCards \subseteq Cards
        /\ Cardinality(HeldCards) = HeldCount)
  /\ [][ (lastCall'.op = "startNewHand" /\ lastCall'.ret = "void") =>
           \E k \in 1 .. NumShuffles :
              \A i \in 0 .. (NumSeats - 1) :
                 players'[(dealerIndex' + 1 + i) % NumSeats].holeCards
                   = << DeckReset(k)[DeckSize - i],
                        DeckReset(k)[DeckSize - NumSeats - i] >> ]_vars

\* The second hand has just been dealt: the button has moved and every
\* seat holds two cards again
DealingRoundRobinWitness ==
  /\ lastCall.op = "startNewHand"
  /\ lastCall.ret = "void"
  /\ handsStarted = 2
  /\ \A i \in Seats : Len(players[i].holeCards) = 2
  /\ Cardinality(HeldCards) = 2 * NumSeats

-----------------------------------------------------------------------------
(* The page: its handlers over the engine it holds.  A handler runs to its  *)
(* end before the next click, so isProcessing is false at every click.      *)

MaxBetAmount == 80    \* largest betAmount explored
MaxStackEdits == 1    \* stack inputs that differ from 1000 at a time

\* Values typed into a stack input
StackInputValues == {0}

\* new PokerGame(), with shuffle outcome k
NewPokerGame(k) ==
  [ players |-> [i \in Seats |-> NewPlayer(DefaultStack)],
    deck |-> DeckReset(k), communityCards |-> << >>,
    pot |-> 0, currentBet |-> 0,
    activePlayerIndex |-> 0, dealerIndex |-> 0,
    smallBlindIndex |-> 0, bigBlindIndex |-> 0,
    phase |-> SETUP, actionLog |-> << >>, gameActions |-> << >>,
    handId |-> "", isFirstAction |-> TRUE, initialStacks |-> << >>,
    phases |-> << >>, threw |-> FALSE ]

\* updateGameState() on engine g
UpdateGameState(g) ==
  /\ gameState' = [phase |-> GetGameState(g).phase,
                   isFirstAction |-> GetGameState(g).isFirstAction]
  /\ validActions' = GetValidActions(g)

\* The action buttons are rendered
ActionsShown == gameState.phase # SETUP /\ gameState.phase # FINISHED

\* Typing value into the stack input of seat index
ChangeStackInput(index, value) ==
  /\ gameState.isFirstAction \/ gameState.phase = SETUP
  /\ playerStacks[index + 1] # value
  /\ Cardinality({i \in 1 .. NumSeats :
                    i # index + 1 /\ playerStacks[i] # DefaultStack})
       < MaxStackEdits
  /\ playerStacks' = [playerStacks EXCEPT ![index + 1] = value]
  /\ UNCHANGED engine
  /\ UNCHANGED <<lastCall, handStartStacks, handsStarted, actionCount, raiseCount>>
  /\ UNCHANGED <<handHistory, gameState, validActions, betAmount>>

\* adjustBetAmount(increment)
AdjustBetAmount(increment) ==
  /\ ActionsShown
  /\ BET \in validActions \/ RAISE \in validActions
  /\ IF increment
     THEN /\ betAmount + BIG_BLIND <= MaxBetAmount
          /\ betAmount' = betAmount + BIG_BLIND
     ELSE /\ betAmount > BIG_BLIND
          /\ betAmount' = IF betAmount - BIG_BLIND > BIG_BLIND
                          THEN betAmount - BIG_BLIND ELSE BIG_BLIND
  /\ UNCHANGED engine
  /\ UNCHANGED <<lastCall, handStartStacks, handsStarted, actionCount, raiseCount>>
  /\ UNCHANGED <<handHistory, gameState, validActions, playerStacks>>

\* handleReset(), the new engine's shuffle outcome being k
HandleReset(k) ==
  \E g \in {SetPlayerStacksCall(NewPokerGame(k), playerStacks)} :
     /\ Becomes(g)
     /\ UpdateGameState(g)
     /\ lastCall' = Called("setPlayerStacks", "", "void", << >>, FALSE)
     /\ UNCHANGED <<handStartStacks, handsStarted, actionCount, raiseCount>>
     /\ UNCHANGED <<handHistory, betAmount, playerStacks>>

\* handleStart(), with shuffle outcome k
HandleStart(k) ==
  /\ handsStarted < MaxHands
  /\ actionCount < MaxActions
  /\ handHistory' = IF gameState.phase = FINISHED
                    THEN << GenerateHandResult(Engine) >> \o handHistory
                    ELSE handHistory
  /\ \E g \in {StartNewHandCall(
                 IF gameState.isFirstAction
                 THEN SetPlayerStacksCall(Engine, playerStacks) ELSE Engine,
                 handsStarted + 1, k)} :
        /\ Becomes(g)
        /\ IF g.threw
           THEN UNCHANGED <<gameState, validActions>>
           ELSE UpdateGameState(g)
        /\ lastCall' = Called("startNewHand", "",
                              IF g.threw THEN "throws" ELSE "void",
                              g.phases, FALSE)
  /\ handStartStacks' = IF gameState.isFirstAction
                        THEN [i \in Seats |-> playerStacks[i + 1]]
                        ELSE StacksOf(players)
  /\ handsStarted' = handsStarted + 1
  /\ actionCount' = actionCount + 1
  /\ UNCHANGED <<raiseCount, betAmount, playerStacks>>

\* handleAction(action, amount) from the button of action
HandleAction(action) ==
  /\ ActionsShown
  /\ action \in validActions
  /\ \E r \in {ProcessActionCall(Engine, action,
                 IF action \in {BET, RAISE} THEN betAmount ELSE 0)} :
       LET raises == action \in {BET, RAISE, ALL_IN}
       IN /\ r.ret # "false" => actionCount < MaxActions
          /\ (r.ret # "false" /\ raises) => raiseCount < MaxRaises
          /\ Becomes(r.g)
          /\ IF r.ret = "true"
             THEN /\ UpdateGameState(r.g)
                  /\ handHistory' =
                       IF GetGameState(r.g).phase = FINISHED
                       THEN << GenerateHandResult(r.g) >> \o handHistory
                       ELSE handHistory
             ELSE UNCHANGED <<handHistory, gameState, validActions>>
          /\ lastCall' = Called("processAction", action, r.ret,
                                r.g.phases, r.roundComplete)
          /\ actionCount' = IF r.ret = "false" THEN actionCount ELSE actionCount + 1
          /\ raiseCount' = IF r.ret # "false" /\ raises
                           THEN raiseCount + 1 ELSE raiseCount
          /\ UNCHANGED <<handStartStacks, handsStarted, betAmount, playerStacks>>

NextPage ==
  \/ \E index \in Seats, value \in StackInputValues : ChangeStackInput(index, value)
  \/ \E increment \in BOOLEAN : AdjustBetAmount(increment)
  \/ \E k \in 1 .. NumShuffles : HandleReset(k)
  \/ \E k \in 1 .. NumShuffles : HandleStart(k)
  \/ \E action \in {FOLD, CHECK, CALL, BET, RAISE, ALL_IN} : HandleAction(action)

SpecPage == Init /\ [][NextPage]_vars

\* The handIds of the Hand History list, first row first
HistoryIds == [n \in 1 .. Len(handHistory) |-> handHistory[n].handId]

\* C40: no handId appears twice in the Hand History list.
HistoryOnce ==
  \A m, n \in 1 .. Len(handHistory) :
     HistoryIds[m] = HistoryIds[n] => m = n

====
